---- MODULE Spec2Model ----
(***************************************************************************)
(* Model of src/pages/index.js: the to-do page component.  The state is    *)
(* the component's useState cells, the debounce timer, the requests in     *)
(* flight (each carrying the values its handler closed over when it was    *)
(* invoked) and the remote collection behind the REST endpoints.           *)
(*                                                                         *)
(* Effects (useEffect) run in the same step as the state change that       *)
(* triggers them.  Titles and search terms are sequences of one-character  *)
(* strings so that toLowerCase() and includes() are computed, not assumed. *)
(* A request fails before it reaches the store, or the store refuses it;   *)
(* a response lost after the store has acted is not modelled.              *)
(***************************************************************************)
EXTENDS Integers, Sequences, FiniteSets, Bags, TLC

VARIABLES
    todos,        \* useState([])   line 14: the displayed list ("items")
    todosCopy,    \* useState(todos) line 15: the backup list ("itemsBackup")
    todoInput,    \* line 16: text of the add/update input
    editIndex,    \* line 17: -1 = create mode, else 0-based index into todos
    editId,       \* history: the id of the record editTodo selected, NoId if none
    count,        \* line 22: the mutation counter
    search,       \* line 23: the debounced search term
    searchItem,   \* line 24: the raw search term
    timer,        \* the pending timeouts of line 176: the searchItem each closed over
    reqs,         \* the HTTP requests in flight (a bag: they are not ordered)
    server,       \* the remote collection
    nextId,       \* the next id the remote store assigns
    ops,          \* history: number of user events so far
    created,      \* history: records created here, not deleted or retitled since
    succeeded,    \* history: TRUE once a response has been processed successfully
    shown         \* history: the list shown before the search now applied, while
                  \* nothing but the search has happened since

vars == <<todos, todosCopy, todoInput, editIndex, editId, count, search,
          searchItem, timer, reqs, server, nextId, ops, created, succeeded, shown>>

-----------------------------------------------------------------------------
(* Bounds *)

MaxOps == 3        \* user events (keystrokes, clicks) in one run
MaxInFlight == 2   \* a click issues a request only while fewer are in flight

NoId == 0          \* the id of `undefined` (todos[editIndex] out of range)
\* `shown` while no search round trip is open, and while one is
NoList == [open |-> FALSE, list |-> <<>>]
Before(list) == [open |-> TRUE, list |-> list]

Titles == {<<"a", "B">>, <<"b">>}
Inputs == Titles
SearchTerms == {<<>>, <<"A">>, <<"b">>}

-----------------------------------------------------------------------------
(* Strings *)

LowerChar(c) ==
    CASE c = "A" -> "a"
      [] c = "B" -> "b"
      [] c = "C" -> "c"
      [] OTHER -> c

toLowerCase(s) == [i \in DOMAIN s |-> LowerChar(s[i])]

includes(s, sub) ==
    \E k \in 0..(Len(s) - Len(sub)) : SubSeq(s, k + 1, k + Len(sub)) = sub

\* title.toLowerCase().includes(value.toLowerCase())
Matches(todo, value) == includes(toLowerCase(todo.title), toLowerCase(value))

-----------------------------------------------------------------------------
(* Lists of records *)

Todo(i, t, c) == [id |-> i, title |-> t, completed |-> c]

Ids(list) == {list[k].id : k \in DOMAIN list}

FilterTitle(list, value) == SelectSeq(list, LAMBDA todo : Matches(todo, value))

RemoveId(list, id) == SelectSeq(list, LAMBDA todo : todo.id # id)

SetAt_Append(list, index, rec) == Append(list, rec)

\* const updated = [...list]; updated[index] = rec  (index is 0-based)
SetAt(list, index, rec) ==
    IF index < Len(list)
    THEN [list EXCEPT ![index + 1] = rec]
    ELSE Append(list, rec)

-----------------------------------------------------------------------------
(* Requests *)

Req(kind, id, title, completed, index, list, cnt) ==
    [kind |-> kind, st |-> "sent", id |-> id, title |-> title,
     completed |-> completed, index |-> index, todos |-> list, count |-> cnt,
     data |-> <<>>, at |-> 0]

GetReq == Req("GET", NoId, <<>>, FALSE, -1, <<>>, 0)

Send(bag, r) == bag (+) SetToBag({r})

Done(bag, r) == bag (-) SetToBag({r})

InFlight == BagToSet(reqs)

\* useEffect(() => { fetchTodos() }, [count]): runs when count has changed
UseEffectCount(newCount, rest) ==
    IF newCount # count THEN Send(rest, GetReq) ELSE rest

-----------------------------------------------------------------------------
(* Search *)

onHandleSearch_FromBackup(value) ==
    LET filteredToDo == FilterTitle(todosCopy, value)
    IN IF Len(filteredToDo) = 0 THEN todosCopy ELSE filteredToDo

\* variant without the fallback of lines 161-162
onHandleSearch_NoFallback(value) == FilterTitle(todos, value)

onHandleSearch(value) ==
    LET filteredToDo == FilterTitle(todos, value)
    IN IF Len(filteredToDo) = 0 THEN todosCopy ELSE filteredToDo

onClearSearch == IF Len(todosCopy) # 0 THEN todosCopy ELSE todos

\* useEffect(..., [search]): runs when search has changed to newSearch
UseEffectSearch(newSearch) ==
    IF newSearch # <<>> THEN onHandleSearch(newSearch) ELSE onClearSearch

-----------------------------------------------------------------------------
\* what the remote store may hold when the page is mounted
SeedTodos == <<Todo(1, <<"a", "B">>, FALSE), Todo(2, <<"b">>, TRUE)>>

InitialServers == {<<>>, SeedTodos}

MaxLen == Len(SeedTodos) + MaxOps   \* longest list, largest id

Init ==
    /\ todos = <<>>
    /\ todosCopy = <<>>
    /\ todoInput = <<>>
    /\ editIndex = -1
    /\ editId = NoId
    /\ count = 0
    /\ search = <<>>
    /\ searchItem = <<>>
    /\ timer = {<<>>}
    /\ reqs = SetToBag({GetReq})
    /\ server \in InitialServers
    /\ nextId = Len(server) + 1
    /\ ops = 0
    /\ created = {}
    /\ succeeded = FALSE
    /\ shown = NoList

-----------------------------------------------------------------------------
(* User input *)

SetTodoInput(t) ==
    /\ ops < MaxOps
    /\ ops' = ops + 1
    /\ t # todoInput
    /\ todoInput' = t
    /\ shown' = NoList
    /\ UNCHANGED <<todos, todosCopy, editIndex, editId, count, search,
                   searchItem, timer, reqs, server, nextId, created,
                   succeeded>>

editTodo(index) ==
    /\ ops < MaxOps
    /\ ops' = ops + 1
    /\ index < Len(todos)
    /\ todoInput' = todos[index + 1].title
    /\ editIndex' = index
    /\ editId' = todos[index + 1].id
    /\ shown' = NoList
    /\ UNCHANGED <<todos, todosCopy, count, search, searchItem, timer, reqs,
                   server, nextId, created, succeeded>>

\* variant whose effect returns no cleanup: the pending timeout is kept
SetSearchItem_NoCancel(value) ==
    /\ ops < MaxOps
    /\ ops' = ops + 1
    /\ value # searchItem
    /\ searchItem' = value
    /\ timer' = timer \cup {value}
    /\ UNCHANGED <<todos, todosCopy, todoInput, editIndex, editId, count,
                   search, reqs, server, nextId, created, succeeded, shown>>

\* onChange of the search input, and the effect of lines 175-178: the cleanup
\* of the previous run clears its timeout, then a new timeout is set
SetSearchItem(value) ==
    /\ ops < MaxOps
    /\ ops' = ops + 1
    /\ value # searchItem
    /\ searchItem' = value
    /\ timer' = {value}
    /\ UNCHANGED <<todos, todosCopy, todoInput, editIndex, editId, count,
                   search, reqs, server, nextId, created, succeeded, shown>>

\* the timeout fires: setSearch(searchItem), then the effect of lines 180-187
TimerFires ==
    /\ \E value \in timer :
          /\ timer' = timer \ {value}
          /\ search' = value
          /\ IF value # search
             THEN /\ todos' = UseEffectSearch(value)
                  /\ shown' = IF search = <<>> THEN Before(todos) ELSE NoList
             ELSE UNCHANGED <<todos, shown>>
    /\ UNCHANGED <<todosCopy, todoInput, editIndex, editId, count, searchItem,
                   reqs, server, nextId, ops, created, succeeded>>

-----------------------------------------------------------------------------
(* Handlers up to their await *)

addTodoCreate ==
    /\ editIndex = -1
    /\ BagCardinality(reqs) < MaxInFlight
    /\ ops < MaxOps
    /\ ops' = ops + 1
    /\ reqs' = Send(reqs, Req("POST", NoId, todoInput, FALSE, -1, <<>>, 0))
    /\ shown' = NoList
    /\ UNCHANGED <<todos, todosCopy, todoInput, editIndex, editId, count,
                   search, searchItem, timer, server, nextId, created,
                   succeeded>>

addTodoUpdate ==
    /\ editIndex # -1
    /\ BagCardinality(reqs) < MaxInFlight
    /\ ops < MaxOps
    /\ ops' = ops + 1
    /\ LET inRange == editIndex < Len(todos)
           id == IF inRange THEN todos[editIndex + 1].id ELSE NoId
           completed == IF inRange THEN todos[editIndex + 1].completed ELSE FALSE
       IN reqs' = Send(reqs, Req("PUT_EDIT", id, todoInput, completed,
                                   editIndex, todos, count))
    /\ shown' = NoList
    /\ UNCHANGED <<todos, todosCopy, todoInput, editIndex, editId, count,
                   search, searchItem, timer, server, nextId, created,
                   succeeded>>

deleteTodo(id) ==
    /\ id \in Ids(todos)
    /\ BagCardinality(reqs) < MaxInFlight
    /\ ops < MaxOps
    /\ ops' = ops + 1
    /\ reqs' = Send(reqs, Req("DELETE", id, <<>>, FALSE, -1, todos, 0))
    /\ shown' = NoList
    /\ UNCHANGED <<todos, todosCopy, todoInput, editIndex, editId, count,
                   search, searchItem, timer, server, nextId, created,
                   succeeded>>

toggleCompleted_NoFlip(index) ==
    /\ index < Len(todos)
    /\ BagCardinality(reqs) < MaxInFlight
    /\ ops < MaxOps
    /\ ops' = ops + 1
    /\ LET todo == todos[index + 1]
       IN reqs' = Send(reqs, Req("PUT_TOGGLE", todo.id, todo.title,
                                   todo.completed, index, todos, count))
    /\ shown' = NoList
    /\ UNCHANGED <<todos, todosCopy, todoInput, editIndex, editId, count,
                   search, searchItem, timer, server, nextId, created,
                   succeeded>>

\* variant that flips the item in todos before the request is sent
toggleCompleted_Optimistic(index) ==
    /\ index < Len(todos)
    /\ BagCardinality(reqs) < MaxInFlight
    /\ ops < MaxOps
    /\ ops' = ops + 1
    /\ LET todo == todos[index + 1]
       IN /\ reqs' = Send(reqs, Req("PUT_TOGGLE", todo.id, todo.title,
                                      ~todo.completed, index, todos, count))
          /\ todos' = SetAt(todos, index,
                            Todo(todo.id, todo.title, ~todo.completed))
    /\ shown' = NoList
    /\ UNCHANGED <<todosCopy, todoInput, editIndex, editId, count, search,
                   searchItem, timer, server, nextId, created, succeeded>>

toggleCompleted(index) ==
    /\ index < Len(todos)
    /\ BagCardinality(reqs) < MaxInFlight
    /\ ops < MaxOps
    /\ ops' = ops + 1
    /\ LET todo == todos[index + 1]
       IN reqs' = Send(reqs, Req("PUT_TOGGLE", todo.id, todo.title,
                                   ~todo.completed, index, todos, count))
    /\ shown' = NoList
    /\ UNCHANGED <<todos, todosCopy, todoInput, editIndex, editId, count,
                   search, searchItem, timer, server, nextId, created,
                   succeeded>>

-----------------------------------------------------------------------------
(* The remote store *)

ServerUnchanged == UNCHANGED <<server, nextId>>

ClientUnchanged ==
    UNCHANGED <<todos, todosCopy, todoInput, editIndex, editId, count, search,
                searchItem, timer, ops, succeeded, shown>>

\* at: the id the store would assign next when it answered a GET (history)
Answer(r, st, id, data) ==
    reqs' = Send(Done(reqs, r),
                 [r EXCEPT !.st = st, !.id = id, !.data = data,
                           !.at = IF r.kind = "GET" THEN nextId ELSE 0])

\* GET /todos returns the full collection
ServerList(r) ==
    /\ r.kind = "GET" /\ r.st = "sent"
    /\ Answer(r, "ok", NoId, server)
    /\ UNCHANGED created
    /\ ServerUnchanged /\ ClientUnchanged

\* POST /todos stores a record under a fresh id and returns the full collection
ServerCreate(r) ==
    /\ r.kind = "POST" /\ r.st = "sent"
    /\ server' = Append(server, Todo(nextId, r.title, r.completed))
    /\ nextId' = nextId + 1
    /\ Answer(r, "ok", nextId, server')
    /\ created' = created \cup {[id |-> nextId, title |-> r.title, acked |-> FALSE]}
    /\ ClientUnchanged

\* PUT /todos/:id replaces title and completed and returns the updated record
ServerUpdate(r) ==
    /\ r.kind \in {"PUT_EDIT", "PUT_TOGGLE"} /\ r.st = "sent"
    /\ r.id \in Ids(server)
    /\ LET updated == Todo(r.id, r.title, r.completed)
       IN /\ server' = [k \in DOMAIN server |->
                          IF server[k].id = r.id THEN updated ELSE server[k]]
          /\ Answer(r, "ok", r.id, <<updated>>)
    /\ created' = {c \in created : c.id # r.id \/ c.title = r.title}
    /\ UNCHANGED nextId /\ ClientUnchanged

\* DELETE /todos/:id removes the record
ServerDelete(r) ==
    /\ r.kind = "DELETE" /\ r.st = "sent"
    /\ r.id \in Ids(server)
    /\ server' = RemoveId(server, r.id)
    /\ Answer(r, "ok", r.id, <<>>)
    /\ created' = {c \in created : c.id # r.id}
    /\ UNCHANGED nextId /\ ClientUnchanged

\* an update or delete of an id the store does not hold is refused
ServerReject(r) ==
    /\ r.kind \in {"PUT_EDIT", "PUT_TOGGLE", "DELETE"} /\ r.st = "sent"
    /\ r.id \notin Ids(server)
    /\ Answer(r, "err", r.id, <<>>)
    /\ UNCHANGED created
    /\ ServerUnchanged /\ ClientUnchanged

-----------------------------------------------------------------------------
(* Handlers after their await *)

fetchTodosResponse_BackupOnly(r) ==
    /\ r.kind = "GET" /\ r.st = "ok"
    /\ todosCopy' = r.data
    /\ reqs' = Done(reqs, r)
    /\ succeeded' = TRUE
    /\ shown' = NoList
    /\ ServerUnchanged
    /\ UNCHANGED <<todos, todoInput, editIndex, editId, count, search,
                   searchItem, timer, ops, created>>

\* variant with a sequencing guard: a response answered before the store
\* assigned its latest id is dropped
fetchTodosResponse_Guarded(r) ==
    /\ r.kind = "GET" /\ r.st = "ok"
    /\ IF r.at = nextId
       THEN todos' = r.data /\ todosCopy' = r.data
       ELSE UNCHANGED <<todos, todosCopy>>
    /\ reqs' = Done(reqs, r)
    /\ succeeded' = TRUE
    /\ shown' = NoList
    /\ ServerUnchanged
    /\ UNCHANGED <<todoInput, editIndex, editId, count, search, searchItem,
                   timer, ops, created>>

fetchTodosResponse(r) ==
    /\ r.kind = "GET" /\ r.st = "ok"
    /\ todos' = r.data
    /\ todosCopy' = r.data
    /\ reqs' = Done(reqs, r)
    /\ succeeded' = TRUE
    /\ shown' = NoList
    /\ ServerUnchanged
    /\ UNCHANGED <<todoInput, editIndex, editId, count, search, searchItem,
                   timer, ops, created>>

addTodoCreateResponse(r) ==
    /\ r.kind = "POST" /\ r.st = "ok"
    /\ todos' = r.data
    /\ todosCopy' = r.data
    /\ todoInput' = <<>>
    /\ reqs' = Done(reqs, r)
    /\ created' = {IF c.id = r.id THEN [c EXCEPT !.acked = TRUE] ELSE c : c \in created}
    /\ succeeded' = TRUE
    /\ shown' = NoList
    /\ ServerUnchanged
    /\ UNCHANGED <<editIndex, editId, count, search, searchItem, timer, ops>>

addTodoUpdateResponse(r) ==
    /\ r.kind = "PUT_EDIT" /\ r.st = "ok"
    /\ todos' = SetAt(r.todos, r.index, r.data[1])
    /\ todoInput' = <<>>
    /\ editIndex' = -1
    /\ editId' = NoId
    /\ count' = r.count + 1
    /\ reqs' = UseEffectCount(r.count + 1, Done(reqs, r))
    /\ succeeded' = TRUE
    /\ shown' = NoList
    /\ ServerUnchanged
    /\ UNCHANGED <<todosCopy, search, searchItem, timer, ops, created>>

deleteTodoResponse_Fresh(r) ==
    /\ r.kind = "DELETE" /\ r.st = "ok"
    /\ todos' = RemoveId(todos, r.id)
    /\ reqs' = Done(reqs, r)
    /\ succeeded' = TRUE
    /\ shown' = NoList
    /\ ServerUnchanged
    /\ UNCHANGED <<todosCopy, todoInput, editIndex, editId, count, search,
                   searchItem, timer, ops, created>>

deleteTodoResponse_UpdatesBackup(r) ==
    /\ r.kind = "DELETE" /\ r.st = "ok"
    /\ todos' = RemoveId(r.todos, r.id)
    /\ todosCopy' = RemoveId(todosCopy, r.id)
    /\ reqs' = Done(reqs, r)
    /\ succeeded' = TRUE
    /\ shown' = NoList
    /\ ServerUnchanged
    /\ UNCHANGED <<todoInput, editIndex, editId, count, search, searchItem,
                   timer, ops, created>>

deleteTodoResponse(r) ==
    /\ r.kind = "DELETE" /\ r.st = "ok"
    /\ todos' = RemoveId(r.todos, r.id)
    /\ reqs' = Done(reqs, r)
    /\ succeeded' = TRUE
    /\ shown' = NoList
    /\ ServerUnchanged
    /\ UNCHANGED <<todosCopy, todoInput, editIndex, editId, count, search,
                   searchItem, timer, ops, created>>

toggleCompletedResponse(r) ==
    /\ r.kind = "PUT_TOGGLE" /\ r.st = "ok"
    /\ todos' = SetAt(r.todos, r.index, r.data[1])
    /\ count' = r.count + 1
    /\ reqs' = UseEffectCount(r.count + 1, Done(reqs, r))
    /\ succeeded' = TRUE
    /\ shown' = NoList
    /\ ServerUnchanged
    /\ UNCHANGED <<todosCopy, todoInput, editIndex, editId, search,
                   searchItem, timer, ops, created>>

catchError_ClearsInput(r) ==
    /\ r.st \in {"sent", "err"}
    /\ reqs' = Done(reqs, r)
    /\ todoInput' = <<>>
    /\ editIndex' = -1
    /\ editId' = NoId
    /\ ServerUnchanged
    /\ UNCHANGED <<todos, todosCopy, count, search, searchItem, timer, ops,
                   created, succeeded, shown>>

\* catch (error) { console.log(error) } of every handler: the request was
\* refused by the store, or failed in transport before reaching it
catchError(r) ==
    /\ r.st \in {"sent", "err"}
    /\ reqs' = Done(reqs, r)
    /\ ServerUnchanged
    /\ UNCHANGED <<todos, todosCopy, todoInput, editIndex, editId, count,
                   search, searchItem, timer, ops, created, succeeded, shown>>

-----------------------------------------------------------------------------
Next ==
    \/ \E t \in Inputs : SetTodoInput(t)
    \/ \E index \in 0..(MaxLen - 1) : editTodo(index)
    \/ \E value \in SearchTerms : SetSearchItem(value)
    \/ TimerFires
    \/ addTodoCreate
    \/ addTodoUpdate
    \/ \E id \in 1..MaxLen : deleteTodo(id)
    \/ \E index \in 0..(MaxLen - 1) : toggleCompleted(index)
    \/ \E r \in InFlight : ServerList(r)
    \/ \E r \in InFlight : ServerCreate(r)
    \/ \E r \in InFlight : ServerUpdate(r)
    \/ \E r \in InFlight : ServerDelete(r)
    \/ \E r \in InFlight : ServerReject(r)
    \/ \E r \in InFlight : fetchTodosResponse(r)
    \/ \E r \in InFlight : addTodoCreateResponse(r)
    \/ \E r \in InFlight : addTodoUpdateResponse(r)
    \/ \E r \in InFlight : deleteTodoResponse(r)
    \/ \E r \in InFlight : toggleCompletedResponse(r)
    \/ \E r \in InFlight : catchError(r)

Spec == Init /\ [][Next]_vars

-----------------------------------------------------------------------------
(* Which request a step handles, read off the bag of requests in flight *)

\* r leaves the bag in this step
Handled(r) == r \in InFlight /\ CopiesIn(r, reqs') < CopiesIn(r, reqs)

\* in this step the store answers r, and a is the answered request
ServedAs(r, a) ==
    /\ r.st = "sent" /\ Handled(r)
    /\ a.st # "sent"
    /\ CopiesIn(a, reqs') > CopiesIn(a, reqs)
    /\ [a EXCEPT !.st = "sent", !.id = r.id, !.data = <<>>, !.at = 0] = r

\* in this step the client runs the code after the await of r's handler
Processed(r) == r.st = "ok" /\ Handled(r)

\* in this step the client runs the catch block of r's handler
Failed(r) ==
    /\ r.st \in {"sent", "err"} /\ Handled(r)
    /\ ~ \E a \in BagToSet(reqs') : ServedAs(r, a)

\* in this step a handler sends r and reaches its await
Issued(r) == r.st = "sent" /\ CopiesIn(r, reqs') > CopiesIn(r, reqs)

Quiescent == reqs = EmptyBag

CompletedOf(list, id) == {list[k].completed : k \in {j \in DOMAIN list : list[j].id = id}}

TitlesOf(list) == {list[k].title : k \in DOMAIN list}

-----------------------------------------------------------------------------
(* C1 *)

\* C1: whenever no request is in flight (so no reload is pending) and some
\* list, create, update or delete has succeeded, todosCopy equals the
\* collection the store holds.
C1_BackupIsServerCollection ==
    (Quiescent /\ succeeded) => todosCopy = server

-----------------------------------------------------------------------------
(* C2 *)

\* C2: whenever the debounced search term is empty and no request is in
\* flight (so no reload is pending), todos equals todosCopy.
C2_ItemsEqualBackupWithoutSearch ==
    (search = <<>> /\ Quiescent) => todos = todosCopy

-----------------------------------------------------------------------------
(* C3 *)

\* C3 as stated: when the response of a successful delete(id) is processed,
\* the new todos is the todos of just before that step with the records of
\* that id removed, whatever was processed while the delete was in flight.
C3_DeleteRemovesFromCurrentItems ==
    [][\A r \in InFlight :
          (r.kind = "DELETE" /\ Processed(r)) => todos' = RemoveId(todos, r.id)]_vars

\* C3 amended: when the response of a successful delete(id) is processed, the
\* new todos is the list deleteTodo closed over when it was invoked, with the
\* records of that id removed and nothing else added, removed or changed;
\* todosCopy is left as it is.
C3_DeleteRemovesFromCapturedItems ==
    [][\A r \in InFlight :
          (r.kind = "DELETE" /\ Processed(r)) =>
              /\ todos' = SelectSeq(r.todos, LAMBDA todo : todo.id # r.id)
              /\ todosCopy' = todosCopy]_vars

\* a delete of id 1 was answered after a create was processed: the response
\* of the delete has put back the list of before the create, less id 1
C3_Witness ==
    /\ Quiescent /\ search = <<>> /\ searchItem = <<>>
    /\ Ids(todos) = {2}
    /\ Ids(server) = {2, 3}
    /\ 3 \in Ids(todosCopy)

-----------------------------------------------------------------------------
(* C4 *)

\* C4 as stated: once the response of a create with title T has been
\* processed, every successful fetch processed afterwards leaves a record
\* titled T in todos, provided the record was not deleted or retitled.
C4_CreatedShownAfterAnyFetch ==
    [][\A r \in InFlight :
          (r.kind = "GET" /\ Processed(r)) =>
              \A c \in created : c.acked => c.title \in TitlesOf(todos')]_vars

\* C4 amended: the same, for the fetches that the store answered after it
\* had stored the created record.
C4_CreatedShownAfterLaterFetch ==
    [][\A r \in InFlight :
          (r.kind = "GET" /\ Processed(r)) =>
              \A c \in created :
                  (c.acked /\ c.id < r.at) => c.title \in TitlesOf(todos')]_vars

\* a create was acknowledged, then an update triggered a reload, and the
\* reload has been processed: the created record is shown
C4_Witness ==
    /\ Quiescent /\ count = 1
    /\ todosCopy = server /\ todos = server
    /\ \E c \in created : c.acked /\ c.id \in Ids(todos) /\ c.title \in TitlesOf(todos)

-----------------------------------------------------------------------------
(* C5 *)

-----------------------------------------------------------------------------
(* C6 *)

\* C6: when the debounced term changes to a non-empty s and some title in
\* todos contains s case-insensitively, todos becomes the sub-list, in order,
\* of the previous todos whose titles contain s, and todosCopy is unchanged.
C6_SearchKeepsMatches ==
    [][(search' # search /\ search' # <<>>
          /\ \E k \in DOMAIN todos : Matches(todos[k], search')) =>
            /\ todos' = FilterTitle(todos, search')
            /\ todosCopy' = todosCopy]_vars

\* "A" was applied to the two seeded records: only "aB" is shown
C6_Witness ==
    /\ search = <<"A">>
    /\ shown = Before(SeedTodos)
    /\ todos = <<SeedTodos[1]>>
    /\ todosCopy = SeedTodos

-----------------------------------------------------------------------------
(* C7 *)

\* C7: whenever the debounced term changes from non-empty to empty, todos
\* becomes equal to todosCopy, and if nothing but the search and its clearing
\* happened since the search was applied, todos is the list shown before it.
C7_ClearRestoresShownList ==
    [][(search # <<>> /\ search' = <<>>) =>
            /\ todos' = todosCopy'
            /\ shown.open => todos' = shown.list]_vars

-----------------------------------------------------------------------------
(* C8 *)

\* C8: when the response of a successful edit submit is processed, todos has
\* the length of the list the edit was applied to, no two entries share an
\* id, the entry at the edit index carries the submitted title, and
\* editIndex is -1.
C8_EditReplacesInPlace ==
    [][\A r \in InFlight :
          (r.kind = "PUT_EDIT" /\ Processed(r)) =>
              /\ Len(todos') = Len(r.todos)
              /\ Cardinality(Ids(todos')) = Len(todos')
              /\ todos'[r.index + 1].title = r.title
              /\ editIndex' = -1]_vars

\* record 1 of the seeded list was retitled "b" by an edit submit
C8_Witness ==
    /\ todos = <<Todo(1, <<"b">>, FALSE), SeedTodos[2]>>
    /\ editIndex = -1
    /\ count = 1

-----------------------------------------------------------------------------
(* C9 *)

\* C9: a failed list, create, update or delete leaves todos, todosCopy,
\* editIndex, todoInput and count unchanged, and issues no request.
C9_FailureLeavesStateUntouched ==
    [][\A r \in InFlight :
          Failed(r) =>
              /\ UNCHANGED <<todos, todosCopy, editIndex, todoInput, count>>
              /\ reqs' = reqs (-) SetToBag({r})]_vars

\* the list() of the mount failed: nothing is loaded although the store
\* holds records, and nothing is in flight
C9_Witness ==
    /\ Quiescent /\ ops = 0 /\ ~succeeded
    /\ server # <<>>
    /\ todos = <<>> /\ todosCopy = <<>>

-----------------------------------------------------------------------------
(* C10 *)

\* C10: todosCopy is assigned only when the response of a successful list()
\* or create() is processed, and then it becomes the collection returned.
C10_BackupOnlyFromListOrCreate ==
    [][todosCopy' # todosCopy =>
          \E r \in InFlight :
              /\ r.kind \in {"GET", "POST"} /\ Processed(r)
              /\ todosCopy' = r.data]_vars

\* a search is applied and todos is filtered, while todosCopy is still the
\* complete collection
C10_Witness ==
    /\ search # <<>> /\ shown.open
    /\ Len(todos) < Len(todosCopy)
    /\ todosCopy = server

-----------------------------------------------------------------------------
(* C11 *)

\* C11: whenever the response of a successful update (edit submit or
\* toggle) is processed, count grows by one and a list() request is issued.
C11_UpdateTriggersReload ==
    [][\A r \in InFlight :
          (r.kind \in {"PUT_EDIT", "PUT_TOGGLE"} /\ Processed(r)) =>
              /\ count' = count + 1
              /\ CopiesIn(GetReq, reqs') > CopiesIn(GetReq, reqs)]_vars

-----------------------------------------------------------------------------
(* C12 *)

\* C12: responses are applied without a sequencing guard: whenever the
\* response of a successful list() or create() is processed, todos and
\* todosCopy become the collection it carries, also when the store has
\* changed since it answered and a later answer has already been processed.
C12_ResponsesAppliedUnguarded ==
    [][\A r \in InFlight :
          (r.kind \in {"GET", "POST"} /\ Processed(r)) =>
              /\ todos' = r.data
              /\ todosCopy' = r.data]_vars

\* a create was answered and its response processed, the record is still in
\* the store, and a list() response answered before the create has since
\* replaced todos and todosCopy: the created record is in neither
C12_Witness ==
    /\ Quiescent
    /\ \E c \in created :
          /\ c.acked
          /\ c.id \in Ids(server)
          /\ c.id \notin Ids(todos)
          /\ c.id \notin Ids(todosCopy)

-----------------------------------------------------------------------------
(* C13 *)

\* C13: at most one debounce timeout is pending, and a pending one carries
\* the current raw term; the debounced term changes only in the step in
\* which the pending timeout fires, and it becomes the raw term of the
\* latest keystroke; a keystroke restarts the timeout and leaves the
\* debounced term alone.
C13_DebounceRestartedOnKeystroke ==
    [][/\ Cardinality(timer') <= 1
       /\ timer' \subseteq {searchItem'}
       /\ search' # search =>
             /\ timer = {searchItem} /\ timer' = {}
             /\ search' = searchItem
       /\ searchItem' # searchItem =>
             /\ timer' = {searchItem'}
             /\ search' = search /\ todos' = todos]_vars

\* "A" is the applied term; since it was applied the raw term was changed
\* and changed back to "A" before the timeout of the value in between
\* fired: that value was never applied, and a timeout is pending
C13_Witness ==
    /\ ops = MaxOps
    /\ search = <<"A">> /\ shown.open
    /\ searchItem = <<"A">> /\ timer = {<<"A">>}

-----------------------------------------------------------------------------
(* C14 *)

\* C14: when a non-empty debounced term is applied and no title in todos
\* matches it, todos becomes todosCopy; and applying a non-empty term never
\* leaves todos empty while todosCopy is not.
C14_ZeroMatchesFallBackToBackup ==
    [][(search' # search /\ search' # <<>>) =>
            /\ FilterTitle(todos, search') = <<>> => todos' = todosCopy
            /\ todosCopy # <<>> => todos' # <<>>]_vars

\* the list shown was only record 2 ("b"); the term "A" matched nothing in
\* it, and todos is now the complete backup
C14_Witness ==
    /\ search = <<"A">> /\ shown.open
    /\ shown.list = <<SeedTodos[2]>>
    /\ todos = SeedTodos /\ todosCopy = SeedTodos

-----------------------------------------------------------------------------
(* C15 *)

\* C15 as stated: when the update request of a toggle fails, todos shows the
\* toggled item with the inverted completed value, the one the request
\* carried.
C15_FailedToggleShowsInverted ==
    [][\A r \in InFlight :
          (r.kind = "PUT_TOGGLE" /\ Failed(r)) =>
              CompletedOf(todos', r.id) = {r.completed}]_vars

\* C15, amended: a toggle changes todos neither when it sends its update
\* request nor when that request fails; the inverted value exists only in
\* the request.
C15_FailedToggleLeavesItems ==
    [][\A r \in InFlight \cup BagToSet(reqs') :
          (r.kind = "PUT_TOGGLE" /\ (Issued(r) \/ Failed(r))) =>
              /\ todos' = todos
              /\ r.completed = ~r.todos[r.index + 1].completed]_vars

\* the store has refused the update of a toggle, and todos still shows the
\* item with the value it had before the toggle
C15_Witness ==
    \E r \in InFlight :
        /\ r.kind = "PUT_TOGGLE" /\ r.st = "err"
        /\ CompletedOf(todos, r.id) = {~r.completed}

-----------------------------------------------------------------------------
(* C16 *)

\* the runs of create, edit, toggle and delete in which no request fails
\* and the search input is never used
NextAllSucceed ==
    \/ \E t \in Inputs : SetTodoInput(t)
    \/ \E index \in 0..(MaxLen - 1) : editTodo(index)
    \/ TimerFires
    \/ addTodoCreate
    \/ addTodoUpdate
    \/ \E id \in 1..MaxLen : deleteTodo(id)
    \/ \E index \in 0..(MaxLen - 1) : toggleCompleted(index)
    \/ \E r \in InFlight : ServerList(r)
    \/ \E r \in InFlight : ServerCreate(r)
    \/ \E r \in InFlight : ServerUpdate(r)
    \/ \E r \in InFlight : ServerDelete(r)
    \/ \E r \in InFlight : fetchTodosResponse(r)
    \/ \E r \in InFlight : addTodoCreateResponse(r)
    \/ \E r \in InFlight : addTodoUpdateResponse(r)
    \/ \E r \in InFlight : deleteTodoResponse(r)
    \/ \E r \in InFlight : toggleCompletedResponse(r)

SpecAllSucceed == Init /\ [][NextAllSucceed]_vars

Records(list) == {list[k] : k \in DOMAIN list}

\* C16: in a run in which every request succeeds and no search is used,
\* once every request has been answered and its response processed (reloads
\* included), todos holds exactly the records of the store's collection.
C16_QuiescentItemsAreServerCollection ==
    Quiescent =>
        /\ Len(todos) = Len(server)
        /\ Records(todos) = Records(server)

-----------------------------------------------------------------------------
(* C17 *)

\* the store deleted the record of this id (ids are assigned in sequence
\* and never reused) and the response of that delete has been processed
DeletedAndProcessed(id) ==
    /\ id \in 1..(nextId - 1)
    /\ id \notin Ids(server)
    /\ ~ \E r \in InFlight : r.kind = "DELETE" /\ r.id = id /\ r.st = "ok"

\* C17: once a delete(id) has succeeded and its response has been
\* processed, no record of that id is in todos.
C17_DeletedNeverShownAgain ==
    \A id \in 1..MaxLen : DeletedAndProcessed(id) => id \notin Ids(todos)

-----------------------------------------------------------------------------
(* C18 *)

\* C18: whenever the debounced term is non-empty, some title in todosCopy
\* contains it and no request is in flight, todos is exactly the records of
\* todosCopy whose title contains the term, ignoring case.
C18_FilterShowsMatchSetOfBackup ==
    (search # <<>> /\ FilterTitle(todosCopy, search) # <<>> /\ Quiescent) =>
        todos = FilterTitle(todosCopy, search)

-----------------------------------------------------------------------------
(* C19 *)

\* C19: the update request an edit submit sends targets the record that
\* editTodo selected, whatever happened to todos in between.
C19_EditTargetsSelectedRecord ==
    [][\A r \in BagToSet(reqs') :
          (r.kind = "PUT_EDIT" /\ Issued(r)) => r.id = editId]_vars

-----------------------------------------------------------------------------
(* C20 *)

\* C20: editIndex is -1 or an index into the current todos.
C20_EditIndexInRange ==
    editIndex = -1 \/ (0 <= editIndex /\ editIndex < Len(todos))

====
